---- MODULE Spec2Model ----
(***************************************************************************)
(* LargeDict (src/data_structure.py): a dictionary that keeps at most      *)
(* in_memory_key_number values in memory and spills the others to one      *)
(* blob per key in a storage directory.  Every "with large_dict.lock"      *)
(* section of the source is one atomic action; the storage I/O that the    *)
(* write task performs between its two lock sections is split into the     *)
(* opening of the blob file and the end of the write.                      *)
(*                                                                         *)
(* Two smaller components follow it, each under a specification of its     *)
(* own: the pickle file cache of DatasetCollection                         *)
(* (src/cyy_torch_toolbox/dataset_collection.py, CacheSpec) and            *)
(* ExternalInputIterator (src/cyy_torch_toolbox/dataloader.py, IterSpec).  *)
(***************************************************************************)
EXTENDS Integers, Sequences, FiniteSets, Bags, TLC

\* ------------------------------------------------------------------ bounds
MaxKey == 2
MaxVal == 2
NumWriters == 2
MaxQueue == 2
MaxWatermark == 1
MaxOps == 3
NumCallers == 2
MaxLen == 3

Keys == 1..MaxKey
Values == 1..MaxVal

\* ------------------------------------------------------- DataInfo (enum)
IN_MEMORY == "IN_MEMORY"
IN_DISK == "IN_DISK"
PRE_SAVING == "PRE_SAVING"
SAVING == "SAVING"
PRE_LOAD == "PRE_LOAD"
LOADING == "LOADING"
PRE_DELETE == "PRE_DELETE"
DataInfo == {IN_MEMORY, IN_DISK, PRE_SAVING, SAVING, PRE_LOAD, LOADING, PRE_DELETE}

\* "key not in data_info", "key not in data", no blob file, a blob file that
\* torch.save has opened and not finished writing
Absent == "absent"
NoValue == 0
NoBlob == 0
Partial == -1

VARIABLES
    data,                  \* self.data: key -> value, NoValue when the key is not in the dict
    data_info,             \* self.data_info: key -> DataInfo, Absent when not in the dict
    time_to_key,           \* self.time_to_key: the recency sequence
    flush_all_once,        \* self.flush_all_once
    in_memory_key_number,  \* self.in_memory_key_number
    storage_dir,           \* self.storage_dir is not None
    permanent,             \* self.permanent
    disk,                  \* the blob files of the storage directory, by key
    dir_exists,            \* the storage directory exists
    write_queue,           \* tasks of self.write_queue not yet taken by a worker
    delete_queue,          \* tasks of self.delete_queue not yet taken by the worker
    writing,               \* the write_item calls in flight: a bag of [pc, key, value]
    flush_pc,              \* position of the thread that is inside flush_all
    phase,                 \* position of the owner inside release
    ret,                   \* what the last foreground call returned (a __getitem__ since
                           \* the last __setitem__ or __delitem__, else NoRet)
    nops,                  \* number of foreground calls made so far
    \* history of the foreground calls, for stating the properties
    logical,               \* key -> value of its latest __setitem__ (or the blob found at
                           \* construction), NoValue once a __delitem__ was accepted
    del_val,               \* key -> value it held when its latest __delitem__ was accepted,
                           \* NoValue after a later __setitem__
    unswept,               \* key -> set and not deleted since the last flush_old_items
    superseding,           \* key -> its latest __setitem__ found it PRE_SAVING or SAVING
    swept,                 \* a sweep outside flush-all mode ran after the last foreground call
    flush_snap,            \* keys IN_MEMORY when the pending flush_all was called and
                           \* not set, got or deleted since
    ndel,                  \* key -> number of __delitem__ calls accepted since its
                           \* latest __setitem__
    late_add,              \* a sweep called write_queue.add_task after force_stop
    evicted,               \* key -> value it held in memory when it last became IN_DISK
                           \* (the blob found at construction)
    seen,                  \* what has happened so far: "delete_cancelled" (a delete
                           \* task found its key not PRE_DELETE), "load_retried" (a
                           \* __getitem__ loaded a key that a failed load left LOADING)
    pending_at_get         \* key -> number of the write tasks in flight that were in
                           \* flight when the latest __getitem__ found the key
                           \* PRE_SAVING or SAVING with its value in memory; cleared by
                           \* __setitem__ and __delitem__.  Write tasks of one key
                           \* that hold the same value are interchangeable: the older
                           \* ones are counted as the first to end.

vars == <<data, data_info, time_to_key, flush_all_once, in_memory_key_number,
          storage_dir, permanent, disk, dir_exists, write_queue, delete_queue,
          writing, flush_pc, phase, ret, nops,
          logical, del_val, unswept, superseding, swept, flush_snap, ndel,
          late_add, evicted, seen, pending_at_get>>

calls == <<logical, del_val, unswept, superseding, swept, flush_snap, ndel,
           late_add>>

history == <<calls, evicted, seen, pending_at_get>>

VARIABLES
    \* DatasetCollection's file cache
    cache_file,            \* cache file -> "none", "empty" (created by os.open, nothing
                           \* dumped yet) or "full"
    cpc,                   \* caller -> its position in the call it is making
    ckind,                 \* caller -> the cache file its call is about
    cache_lock,            \* the thread that holds DatasetCollection.__lock, 0 when free
    computed,              \* cache file -> number of calls of its computation_fun
    \* ExternalInputIterator
    indices,               \* self.__indices
    batch_size,            \* self.__batch_size
    shuffle,               \* self.__shuffle
    tmp_indices,           \* self.__tmp_indices, NoneIndices before the first reset
    use_iter,              \* self.__use_iter
    out,                   \* what the last __next__ did: a batch or StopIteration
    emitted,               \* the indices __next__ returned since the last StopIteration
    pass_from,             \* the pass in progress began at: "new", "iter", "stop";
                           \* "restarted" once __iter__ has reset it midway
    last_from              \* pass_from, as it was when the last StopIteration was raised

cachevars == <<cache_file, cpc, ckind, cache_lock, computed>>

itervars == <<indices, batch_size, shuffle, tmp_indices, use_iter, out, emitted,
              pass_from, last_from>>

\* What an action of LargeDict leaves alone.
others == <<cachevars, itervars>>

NoRet == [key |-> 0, val |-> NoValue, loaded |-> FALSE, err |-> FALSE]

\* ------------------------------------------------------------- list helpers
RECURSIVE remove(_, _)
\* list.remove(key): drops the first occurrence; ValueError is swallowed
remove(s, key) ==
    IF s = <<>> THEN <<>>
    ELSE IF Head(s) = key THEN Tail(s)
    ELSE <<Head(s)>> \o remove(Tail(s), key)

\* remove_access_time that leaves the sequence as it is
remove_access_time_skipped(s, key) == s

remove_access_time(s, key) == remove(s, key)

\* update_access_time without the removal of the old position
update_access_time_no_remove(s, key) == Append(s, key)

\* update_access_time that puts the key at the oldest end
update_access_time_front(s, key) == <<key>> \o remove_access_time(s, key)

\* update_access_time that leaves the sequence as it is
update_access_time_skipped(s, key) == s

update_access_time(s, key) == Append(remove_access_time(s, key), key)

Range(s) == {s[i] : i \in 1..Len(s)}

\* TaskQueue (task_queue.py, contract of spec section 4.1): tasks are taken in
\* arrival order by the queue's workers; force_stop abandons the tasks that no
\* worker has taken.
add_task(q, task) == Append(q, task)

RECURSIVE add_tasks(_, _)
add_tasks(q, tasks) ==
    IF tasks = <<>> THEN q ELSE add_tasks(add_task(q, Head(tasks)), Tail(tasks))

next_task(q) == Head(q)

force_stop(q) == <<>>

\* shutil.rmtree(item_path) on a blob: item_path is the regular file written by
\* torch.save (or no file at all), for which rmtree raises NotADirectoryError
\* (FileNotFoundError) and removes nothing.
rmtree_item(d, key) == d

\* shutil.rmtree(self.storage_dir): the directory and every blob in it go.
rmtree_dir(d) == [k \in Keys |-> NoBlob]

\* pop_value without the removal: the value stays in self.data
pop_value_kept(d, key) == d

\* data.pop(key)
pop_value(d, key) == [d EXCEPT ![key] = NoValue]

\* still_saving without the comparison: the write task never sees that it was
\* superseded
still_saving_unchecked(info, key) == TRUE

\* The re-check at the end of write_item: the key is still SAVING.
still_saving(info, key) == info[key] = SAVING

\* ----------------------------------------------------------------- queries
in_memory_keys == {k \in Keys : data_info[k] = IN_MEMORY}

keys == {k \in Keys : data_info[k] # Absent /\ data_info[k] # PRE_DELETE}

len == Cardinality(keys)

\* ------------------------------------------------------------------- Init
\* What os.listdir(storage_dir) may find at construction: nothing, or a blob
\* that an earlier store left for key 1.
InitBlobs ==
    {[k \in Keys |-> NoBlob], [k \in Keys |-> IF k = 1 THEN 1 ELSE NoBlob]}

\* __init__: without a storage directory the dict is empty; with one, every
\* file found in it becomes an IN_DISK key.
LargeDictInit ==
    /\ storage_dir \in BOOLEAN
    /\ disk \in InitBlobs
    /\ (~storage_dir) => disk = [k \in Keys |-> NoBlob]
    /\ dir_exists = storage_dir
    /\ permanent = storage_dir
    /\ data = [k \in Keys |-> NoValue]
    /\ data_info = [k \in Keys |-> IF disk[k] # NoBlob THEN IN_DISK ELSE Absent]
    /\ time_to_key = <<>>
    /\ flush_all_once = FALSE
    \* the watermark in force after construction (set_in_memory_key_number)
    /\ in_memory_key_number \in 0..MaxWatermark
    /\ write_queue = <<>>
    /\ delete_queue = <<>>
    /\ writing = EmptyBag
    /\ flush_pc = "idle"
    /\ phase = "running"
    /\ ret = NoRet
    /\ nops = 0
    /\ logical = disk
    /\ del_val = [k \in Keys |-> NoValue]
    /\ unswept = [k \in Keys |-> FALSE]
    /\ superseding = [k \in Keys |-> FALSE]
    /\ swept = FALSE
    /\ flush_snap = {}
    /\ ndel = [k \in Keys |-> 0]
    /\ late_add = FALSE
    /\ evicted = disk
    /\ seen = {}
    /\ pending_at_get = [k \in Keys |-> 0]

Running == phase = "running"

\* ------------------------------------------------------------ __setitem__
SetItem(key, val) ==
    /\ Running
    /\ nops < MaxOps
    /\ nops' = nops + 1
    /\ data' = [data EXCEPT ![key] = val]
    /\ data_info' = [data_info EXCEPT ![key] = IN_MEMORY]
    /\ time_to_key' = update_access_time(time_to_key, key)
    /\ ret' = NoRet
    /\ logical' = [logical EXCEPT ![key] = val]
    /\ del_val' = [del_val EXCEPT ![key] = NoValue]
    /\ unswept' = [unswept EXCEPT ![key] = TRUE]
    /\ superseding' = [superseding EXCEPT ![key] = data_info[key] \in {PRE_SAVING, SAVING}]
    /\ swept' = FALSE
    /\ flush_snap' = flush_snap \ {key}
    /\ ndel' = [ndel EXCEPT ![key] = 0]
    /\ pending_at_get' = [pending_at_get EXCEPT ![key] = 0]
    /\ UNCHANGED <<flush_all_once, in_memory_key_number, storage_dir, permanent,
                   disk, dir_exists, write_queue, delete_queue, writing,
                   flush_pc, phase, late_add, evicted, seen>>
    /\ UNCHANGED others

\* ------------------------------------------------- __getitem__/__load_item
\* torch.load(get_key_storage_path(key)): the value of the blob, or an
\* exception (no storage_dir, no blob, a blob that is not completely written,
\* or an I/O failure io_ok = FALSE).
\* load_ok for a store whose torch.load always raises
load_ok_never(key, io_ok) == FALSE

\* load_ok that refuses a key which a failed load has left LOADING
load_ok_once(key, io_ok) ==
    storage_dir /\ io_ok /\ disk[key] \in Values /\ data_info[key] # LOADING

load_ok(key, io_ok) == storage_dir /\ io_ok /\ disk[key] \in Values

\* The outcome of __load_item(key) in the current state: what it returns and
\* what it leaves in data_info, data and time_to_key.  read_item runs inline,
\* inside the caller's lock section, so the whole call is one step.
\* known without the test: __load_item goes on with a key it has no entry for
known_unchecked(key) == TRUE

\* "key in self.data_info"
known(key) == data_info[key] # Absent

load_item(key, io_ok) ==
    IF ~known(key) THEN
        \* raise KeyError(key)
        [ret |-> [key |-> key, val |-> NoValue, loaded |-> FALSE, err |-> TRUE],
         info |-> data_info, data |-> data, ttk |-> time_to_key]
    ELSE IF data[key] # NoValue THEN
        [ret |-> [key |-> key, val |-> data[key], loaded |-> FALSE, err |-> FALSE],
         info |-> [data_info EXCEPT ![key] = IN_MEMORY],
         data |-> data,
         ttk |-> update_access_time(time_to_key, key)]
    ELSE IF load_ok(key, io_ok) THEN
        \* PRE_LOAD, LOADING, torch.load, IN_MEMORY
        [ret |-> [key |-> key, val |-> disk[key], loaded |-> TRUE, err |-> FALSE],
         info |-> [data_info EXCEPT ![key] = IN_MEMORY],
         data |-> [data EXCEPT ![key] = disk[key]],
         ttk |-> update_access_time(time_to_key, key)]
    ELSE
        \* torch.load raised after read_item had set LOADING
        [ret |-> [key |-> key, val |-> NoValue, loaded |-> TRUE, err |-> TRUE],
         info |-> [data_info EXCEPT ![key] = LOADING],
         data |-> data, ttk |-> time_to_key]

\* The number of write_item calls in flight for key.
InFlight(key) ==
    BagCardinality([t \in {u \in BagToSet(writing) : u.key = key} |->
                        CopiesIn(t, writing)])

\* pending_at_get[key] after one write task of key has ended
one_ended(key) ==
    [pending_at_get EXCEPT ![key] = IF @ > 0 THEN @ - 1 ELSE 0]

GetItem(key, io_ok) ==
    /\ Running
    /\ nops < MaxOps
    /\ nops' = nops + 1
    /\ LET r == load_item(key, io_ok) IN
        /\ ret' = r.ret
        /\ data_info' = r.info
        /\ data' = r.data
        /\ time_to_key' = r.ttk
    /\ swept' = FALSE
    /\ flush_snap' = flush_snap \ {key}
    /\ seen' = IF data_info[key] = LOADING /\ data[key] = NoValue /\ load_ok(key, io_ok)
               THEN seen \cup {"load_retried"} ELSE seen
    /\ pending_at_get' =
            IF data[key] # NoValue /\ data_info[key] \in {PRE_SAVING, SAVING}
            THEN [pending_at_get EXCEPT ![key] = InFlight(key)]
            ELSE pending_at_get
    /\ UNCHANGED <<flush_all_once, in_memory_key_number, storage_dir, permanent,
                   disk, dir_exists, write_queue, delete_queue, writing,
                   flush_pc, phase, logical, del_val, unswept, superseding,
                   ndel, late_add, evicted>>
    /\ UNCHANGED others

\* ------------------------------------------------------------ __delitem__
\* The two asserts reject a key that has no value in memory.
delitem_accepts(key) == data[key] # NoValue /\ data_info[key] # Absent

DelItem(key) ==
    /\ Running
    /\ nops < MaxOps
    /\ nops' = nops + 1
    /\ IF delitem_accepts(key)
       THEN /\ Len(delete_queue) < MaxQueue
            /\ data_info' = [data_info EXCEPT ![key] = PRE_DELETE]
            /\ delete_queue' = add_task(delete_queue, key)
            /\ logical' = [logical EXCEPT ![key] = NoValue]
            /\ del_val' = [del_val EXCEPT ![key] = data[key]]
            /\ unswept' = [unswept EXCEPT ![key] = FALSE]
            /\ superseding' = [superseding EXCEPT ![key] = FALSE]
            /\ ndel' = [ndel EXCEPT ![key] = @ + 1]
       ELSE UNCHANGED <<data_info, delete_queue, logical, del_val, unswept,
                        superseding, ndel>>
    /\ ret' = NoRet
    /\ swept' = FALSE
    /\ flush_snap' = flush_snap \ {key}
    /\ pending_at_get' = [pending_at_get EXCEPT ![key] = 0]
    /\ UNCHANGED <<data, time_to_key, flush_all_once, in_memory_key_number,
                   storage_dir, permanent, disk, dir_exists, write_queue,
                   writing, flush_pc, phase, late_add, evicted, seen>>
    /\ UNCHANGED others

\* ------------------------------------------------- set_in_memory_key_number
SetInMemoryKeyNumber(num) ==
    /\ Running
    /\ nops < MaxOps
    /\ nops' = nops + 1
    /\ num # in_memory_key_number
    /\ in_memory_key_number' = num
    /\ swept' = FALSE
    /\ UNCHANGED <<data, data_info, time_to_key, flush_all_once, storage_dir,
                   permanent, disk, dir_exists, write_queue, delete_queue,
                   writing, flush_pc, phase, ret, logical, del_val, unswept,
                   superseding, flush_snap, ndel, late_add, evicted, seen, pending_at_get>>
    /\ UNCHANGED others

\* -------------------------------------------------------- flush_old_items
\* excess with the loop condition off by one (len > in_memory_key_number + 1)
excess_off_by_one(n, watermark, all) ==
    IF all THEN n ELSE IF n > watermark + 1 THEN n - watermark - 1 ELSE 0

\* excess with a loop condition that is always true while keys are left
excess_ignoring_watermark(n, watermark, all) == n

\* The number of keys the while loop pops: every key in flush-all mode,
\* otherwise the excess over in_memory_key_number.
excess(n, watermark, all) ==
    IF all THEN n ELSE IF n > watermark THEN n - watermark ELSE 0

\* In flush-all mode the loop condition stays true on the emptied list and
\* time_to_key.pop(0) raises IndexError; the flag is cleared only by a sweep
\* that finds the list empty on entry.
sweep_raises == time_to_key # <<>> /\ flush_all_once

SweeperAlive == phase \in {"running", "releasing", "queues_stopped"}

\* write_queue.force_stop() has returned (release, before flush_threads.stop())
QueuesStopped == phase = "queues_stopped"

\* TaskQueue.add_task on a stopped queue fails with QueueClosed (spec section
\* 4.1).
add_task_fails == QueuesStopped

\* popped with pop() in the place of pop(0): the most recent keys go
newest(s, m) == SubSeq(s, Len(s) - m + 1, Len(s))

\* The keys that m rounds of time_to_key.pop(0) take, in pop order.
oldest(s, m) == SubSeq(s, 1, m)

\* When add_task fails the loop ends with the first key popped and marked
\* PRE_SAVING.
FlushOldItems ==
    /\ SweeperAlive
    /\ IF time_to_key = <<>>
       THEN /\ flush_all_once' = FALSE
            /\ UNCHANGED <<data_info, time_to_key, write_queue, late_add>>
       ELSE LET n == excess(Len(time_to_key), in_memory_key_number, flush_all_once)
                m == IF add_task_fails /\ n > 0 THEN 1 ELSE n
                popped == oldest(time_to_key, m)
            IN  /\ QueuesStopped \/ Len(write_queue) + n <= MaxQueue
                /\ time_to_key' = SubSeq(time_to_key, m + 1, Len(time_to_key))
                /\ data_info' = [k \in Keys |->
                        IF k \in Range(popped) THEN PRE_SAVING ELSE data_info[k]]
                /\ write_queue' = IF add_task_fails THEN write_queue
                                  ELSE add_tasks(write_queue, popped)
                /\ late_add' = (late_add \/ (QueuesStopped /\ n > 0))
                /\ UNCHANGED flush_all_once
    /\ unswept' = [k \in Keys |-> FALSE]
    /\ swept' = (~flush_all_once /\ ~QueuesStopped)
    /\ UNCHANGED <<data, in_memory_key_number, storage_dir, permanent, disk,
                   dir_exists, delete_queue, writing, flush_pc, phase, ret, nops,
                   logical, del_val, superseding, flush_snap, ndel, evicted, seen, pending_at_get>>
    /\ UNCHANGED others

\* --------------------------------------------------------------- write_item
Task(pc, key, value) == [pc |-> pc, key |-> key, value |-> value]

Move(bag, t, u) == (bag (-) SetToBag({t})) (+) SetToBag({u})

\* still_pre_saving without the comparison
still_pre_saving_unchecked(info, key) == TRUE

\* The re-check at the start of write_item: the key is still PRE_SAVING.
still_pre_saving(info, key) == info[key] = PRE_SAVING

\* A free worker of write_queue takes the oldest task.  First lock section:
\* the re-check of PRE_SAVING.
WriteItemBegin ==
    /\ BagCardinality(writing) < NumWriters
    /\ write_queue # <<>>
    /\ LET key == next_task(write_queue) IN
        /\ write_queue' = Tail(write_queue)
        /\ IF data_info[key] = Absent \/ ~still_pre_saving(data_info, key)
           THEN UNCHANGED <<data_info, writing>>
           ELSE /\ data_info' = [data_info EXCEPT ![key] = SAVING]
                /\ writing' = writing (+) SetToBag({Task("save", key, data[key])})
    /\ UNCHANGED <<data, time_to_key, flush_all_once, in_memory_key_number,
                   storage_dir, permanent, disk, dir_exists, delete_queue,
                   flush_pc, phase, ret, nops, history, pending_at_get>>
    /\ UNCHANGED others

\* save_raised for a write_item that catches the exception, logs it and goes
\* on to its second lock section
save_swallowed(bag, t) == Move(bag, t, Task("check", t.key, t.value))

\* The exception of get_key_storage_path or torch.save ends the write_item call.
save_raised(bag, t) == bag (-) SetToBag({t})

\* get_key_storage_path and the start of torch.save, outside the lock: the
\* call raises without a storage_dir or on an I/O failure, otherwise the blob
\* file is opened for writing.
WriteItemSave(t, io_ok) ==
    /\ BagIn(t, writing)
    /\ t.pc = "save"
    /\ IF storage_dir /\ io_ok
       THEN /\ disk' = [disk EXCEPT ![t.key] = Partial]
            /\ writing' = Move(writing, t, Task("saving", t.key, t.value))
            /\ UNCHANGED pending_at_get
       ELSE /\ writing' = save_raised(writing, t)
            /\ pending_at_get' = one_ended(t.key)
            /\ UNCHANGED disk
    /\ UNCHANGED <<data, data_info, time_to_key, flush_all_once,
                   in_memory_key_number, storage_dir, permanent, dir_exists,
                   write_queue, delete_queue, flush_pc, phase, ret, nops,
                   history>>
    /\ UNCHANGED others

\* torch.save returns: the blob holds the value read in the first section.
WriteItemSaved(t) ==
    /\ BagIn(t, writing)
    /\ t.pc = "saving"
    /\ disk' = [disk EXCEPT ![t.key] = t.value]
    /\ writing' = Move(writing, t, Task("check", t.key, t.value))
    /\ UNCHANGED <<data, data_info, time_to_key, flush_all_once,
                   in_memory_key_number, storage_dir, permanent, dir_exists,
                   write_queue, delete_queue, flush_pc, phase, ret, nops,
                   history, pending_at_get>>
    /\ UNCHANGED others

\* Second lock section: the re-check of SAVING.
WriteItemEnd(t) ==
    /\ BagIn(t, writing)
    /\ t.pc = "check"
    /\ IF data_info[t.key] = Absent
       THEN /\ disk' = rmtree_item(disk, t.key)
            /\ UNCHANGED <<data_info, data, time_to_key, evicted>>
       ELSE IF ~still_saving(data_info, t.key)
       THEN UNCHANGED <<data_info, data, time_to_key, disk, evicted>>
       ELSE /\ data_info' = [data_info EXCEPT ![t.key] = IN_DISK]
            /\ data' = pop_value(data, t.key)
            /\ time_to_key' = remove_access_time(time_to_key, t.key)
            /\ evicted' = [evicted EXCEPT ![t.key] = data[t.key]]
            /\ UNCHANGED disk
    /\ writing' = writing (-) SetToBag({t})
    /\ pending_at_get' = one_ended(t.key)
    /\ UNCHANGED <<flush_all_once, in_memory_key_number, storage_dir, permanent,
                   dir_exists, write_queue, delete_queue, flush_pc, phase, ret,
                   nops, calls, seen>>
    /\ UNCHANGED others

\* -------------------------------------------------------------- delete_item
\* still_pre_delete without the comparison
still_pre_delete_unchecked(info, key) == TRUE

\* The re-check of delete_item: the key is still PRE_DELETE.
still_pre_delete(info, key) == info[key] = PRE_DELETE

\* get_key_storage_path raises before the lock when there is no storage_dir.
DeleteItem ==
    /\ delete_queue # <<>>
    /\ delete_queue' = Tail(delete_queue)
    /\ LET key == next_task(delete_queue) IN
        IF ~storage_dir \/ data_info[key] = Absent
        THEN UNCHANGED <<data_info, data, time_to_key, disk, seen>>
        ELSE IF ~still_pre_delete(data_info, key)
        THEN /\ seen' = seen \cup {"delete_cancelled"}
             /\ UNCHANGED <<data_info, data, time_to_key, disk>>
        ELSE /\ data_info' = [data_info EXCEPT ![key] = Absent]
             /\ data' = pop_value(data, key)
             /\ time_to_key' = remove_access_time(time_to_key, key)
             /\ disk' = rmtree_item(disk, key)
             /\ UNCHANGED seen
    /\ UNCHANGED <<flush_all_once, in_memory_key_number, storage_dir, permanent,
                   dir_exists, write_queue, writing, flush_pc, phase, ret, nops,
                   calls, evicted, pending_at_get>>
    /\ UNCHANGED others

\* ---------------------------------------------------------------- flush_all
FlushAll ==
    /\ Running
    /\ flush_pc = "idle"
    /\ nops < MaxOps
    /\ nops' = nops + 1
    /\ permanent' = TRUE
    /\ flush_all_once' = TRUE
    /\ flush_pc' = "polling"
    /\ swept' = FALSE
    /\ flush_snap' = in_memory_keys
    /\ UNCHANGED <<data, data_info, time_to_key, in_memory_key_number,
                   storage_dir, disk, dir_exists, write_queue, delete_queue,
                   writing, phase, ret, logical, del_val, unswept, superseding,
                   ndel, late_add, evicted, seen, pending_at_get>>
    /\ UNCHANGED others

\* One poll that finds time_to_key empty: flush_all returns.
FlushAllReturn ==
    /\ flush_pc = "polling"
    /\ time_to_key = <<>>
    /\ flush_pc' = "idle"
    /\ flush_snap' = {}
    /\ UNCHANGED <<data, data_info, time_to_key, flush_all_once,
                   in_memory_key_number, storage_dir, permanent, disk,
                   dir_exists, write_queue, delete_queue, writing, phase, ret,
                   nops, logical, del_val, unswept, superseding, swept, ndel,
                   late_add, evicted, seen, pending_at_get>>
    /\ UNCHANGED others

\* ------------------------------------------------------------------ release
\* release() up to the end of flush_all's first lock section.
Release ==
    /\ Running
    /\ flush_pc = "idle"
    /\ phase' = "releasing"
    /\ IF permanent
       THEN /\ flush_all_once' = TRUE
            /\ flush_pc' = "polling"
            /\ flush_snap' = in_memory_keys
       ELSE UNCHANGED <<flush_all_once, flush_pc, flush_snap>>
    /\ swept' = FALSE
    /\ UNCHANGED <<data, data_info, time_to_key, in_memory_key_number,
                   storage_dir, permanent, disk, dir_exists, write_queue,
                   delete_queue, writing, ret, nops, logical, del_val, unswept,
                   superseding, ndel, late_add, evicted, seen, pending_at_get>>
    /\ UNCHANGED others

\* force_stop of the three queues: the tasks not yet started are abandoned,
\* the ones in flight have completed when the workers are joined.
ReleaseStopQueues ==
    /\ phase = "releasing"
    /\ flush_pc = "idle"
    /\ writing = EmptyBag
    /\ write_queue' = force_stop(write_queue)
    /\ delete_queue' = force_stop(delete_queue)
    /\ phase' = "queues_stopped"
    /\ UNCHANGED <<data, data_info, time_to_key, flush_all_once,
                   in_memory_key_number, storage_dir, permanent, disk,
                   dir_exists, writing, flush_pc, ret, nops, history, pending_at_get>>
    /\ UNCHANGED others

\* flush_threads.stop(), self.data = None and shutil.rmtree(self.storage_dir).
ReleaseStop ==
    /\ phase = "queues_stopped"
    /\ data' = [k \in Keys |-> NoValue]
    /\ IF storage_dir
       THEN disk' = rmtree_dir(disk) /\ dir_exists' = FALSE
       ELSE UNCHANGED <<disk, dir_exists>>
    /\ phase' = "released"
    /\ UNCHANGED <<data_info, time_to_key, flush_all_once, in_memory_key_number,
                   storage_dir, permanent, write_queue, delete_queue, writing,
                   flush_pc, ret, nops, history, pending_at_get>>
    /\ UNCHANGED others

\* ===================================================== DatasetCollection cache
\* The threads that call into one DatasetCollection, and its two cache files:
\* labels.pk (get_labels) and label_indices.pk (__get_label_indices).
Callers == 1..NumCallers

CacheFiles == {"labels", "label_indices"}

CacheStart ==
    /\ cache_file = [f \in CacheFiles |-> "none"]
    /\ cpc = [c \in Callers |-> "idle"]
    /\ ckind = [c \in Callers |-> "labels"]
    /\ cache_lock = 0
    /\ computed = [f \in CacheFiles |-> 0]

\* get_labels: calls __get_cache_data without taking DatasetCollection.__lock.
get_labels(c) ==
    /\ cpc[c] = "idle"
    /\ cpc' = [cpc EXCEPT ![c] = "read"]
    /\ ckind' = [ckind EXCEPT ![c] = "labels"]
    /\ UNCHANGED <<cache_file, cache_lock, computed>>
    /\ UNCHANGED <<vars, itervars>>

\* "with self.__lock": the RLock is free or held by the calling thread.
lock_free(c) == cache_lock \in {0, c}

\* __get_label_indices: the whole call runs inside "with self.__lock".
get_label_indices(c) ==
    /\ cpc[c] = "idle"
    /\ lock_free(c)
    /\ cache_lock' = c
    /\ cpc' = [cpc EXCEPT ![c] = "read"]
    /\ ckind' = [ckind EXCEPT ![c] = "label_indices"]
    /\ UNCHANGED <<cache_file, computed>>
    /\ UNCHANGED <<vars, itervars>>

\* __read_data, called first by __get_cache_data: None when there is no file;
\* pickle.load raises on a file that __write_data has created and not yet
\* dumped into; otherwise the stored value.
read_data(c) ==
    /\ cpc[c] = "read"
    /\ cpc' = [cpc EXCEPT ![c] =
                CASE cache_file[ckind[c]] = "none" -> "compute"
                  [] cache_file[ckind[c]] = "empty" -> "raised"
                  [] OTHER -> "returned"]
    /\ UNCHANGED <<cache_file, ckind, cache_lock, computed>>
    /\ UNCHANGED <<vars, itervars>>

\* data = computation_fun()
computation_fun(c) ==
    /\ cpc[c] = "compute"
    /\ computed' = [computed EXCEPT ![ckind[c]] = @ + 1]
    /\ cpc' = [cpc EXCEPT ![c] = "write"]
    /\ UNCHANGED <<cache_file, ckind, cache_lock>>
    /\ UNCHANGED <<vars, itervars>>

\* __write_data, os.open(path, O_CREAT | O_EXCL | O_WRONLY): FileExistsError
\* when the file is there.
write_data_open(c) ==
    /\ cpc[c] = "write"
    /\ IF cache_file[ckind[c]] = "none"
       THEN /\ cache_file' = [cache_file EXCEPT ![ckind[c]] = "empty"]
            /\ cpc' = [cpc EXCEPT ![c] = "dump"]
       ELSE /\ cpc' = [cpc EXCEPT ![c] = "raised"]
            /\ UNCHANGED cache_file
    /\ UNCHANGED <<ckind, cache_lock, computed>>
    /\ UNCHANGED <<vars, itervars>>

\* __write_data, pickle.dump and the close of the file
write_data_dump(c) ==
    /\ cpc[c] = "dump"
    /\ cache_file' = [cache_file EXCEPT ![ckind[c]] = "full"]
    /\ cpc' = [cpc EXCEPT ![c] = "returned"]
    /\ UNCHANGED <<ckind, cache_lock, computed>>
    /\ UNCHANGED <<vars, itervars>>

\* The call is over, with a value or an exception; leaving the "with" block
\* releases the lock.
cache_call_ends(c) ==
    /\ cpc[c] \in {"returned", "raised"}
    /\ cpc' = [cpc EXCEPT ![c] = "idle"]
    /\ cache_lock' = IF cache_lock = c THEN 0 ELSE cache_lock
    /\ UNCHANGED <<cache_file, ckind, computed>>
    /\ UNCHANGED <<vars, itervars>>

CacheNext ==
    \/ \E c \in Callers : get_labels(c)
    \/ \E c \in Callers : get_label_indices(c)
    \/ \E c \in Callers : read_data(c)
    \/ \E c \in Callers : computation_fun(c)
    \/ \E c \in Callers : write_data_open(c)
    \/ \E c \in Callers : write_data_dump(c)
    \/ \E c \in Callers : cache_call_ends(c)

\* ==================================================== ExternalInputIterator
\* self.__tmp_indices = None
NoneIndices == <<-1>>

RECURSIVE Reverse(_)
Reverse(s) == IF s = <<>> THEN <<>> ELSE Append(Reverse(Tail(s)), Head(s))

\* The orders random.shuffle can leave a list in.
Shuffles(s) ==
    {[i \in 1..Len(s) |-> s[f[i]]] : f \in Permutations(1..Len(s))}

\* __reset without the reverse()
reset_unreversed(ind, shuf) == IF shuf THEN Shuffles(ind) ELSE {ind}

\* __reset: the lists that self.__tmp_indices can be after it.
reset(ind, shuf) == IF shuf THEN Shuffles(Reverse(ind)) ELSE {Reverse(ind)}

\* The lists of distinct dataset indices of length n.
IndexLists(n) ==
    {q \in [1..n -> 0..(MaxLen - 1)] : \A i, j \in 1..n : i # j => q[i] # q[j]}

\* __init__: dataset.indices of a Subset, or list(range(len(dataset))).
IterStart ==
    /\ indices \in UNION {IndexLists(n) : n \in 0..MaxLen}
    /\ batch_size \in 1..MaxLen
    /\ shuffle \in BOOLEAN
    /\ tmp_indices = NoneIndices
    /\ use_iter = FALSE
    /\ out = [batch |-> <<>>, stop |-> FALSE]
    /\ emitted = <<>>
    /\ pass_from = "new"
    /\ last_from = "new"

\* An iterator over an empty dataset that nobody uses.
IterOff == IterStart /\ indices = <<>> /\ batch_size = 1 /\ ~shuffle

\* __iter__
Iter ==
    /\ ~use_iter
    /\ use_iter' = TRUE
    /\ tmp_indices' \in reset(indices, shuffle)
    /\ pass_from' = IF emitted # <<>> THEN "restarted"
                    ELSE IF pass_from = "new" THEN "iter" ELSE pass_from
    /\ UNCHANGED <<indices, batch_size, shuffle, out, emitted, last_from>>
    /\ UNCHANGED <<vars, cachevars>>

\* The batch that the for loop of __next__ pops from the end of tmp.
popped_batch(tmp, size) ==
    LET n == IF Len(tmp) < size THEN Len(tmp) ELSE size
    IN  [i \in 1..n |-> tmp[Len(tmp) - i + 1]]

\* __next__
NextBatch ==
    /\ IF tmp_indices = NoneIndices \/ tmp_indices = <<>>
       THEN /\ tmp_indices' \in reset(indices, shuffle)
            /\ out' = [batch |-> <<>>, stop |-> TRUE]
            /\ last_from' = pass_from
            /\ emitted' = <<>>
            /\ pass_from' = "stop"
       ELSE LET b == popped_batch(tmp_indices, batch_size) IN
            /\ tmp_indices' = SubSeq(tmp_indices, 1, Len(tmp_indices) - Len(b))
            /\ out' = [batch |-> b, stop |-> FALSE]
            /\ emitted' = emitted \o b
            /\ UNCHANGED <<pass_from, last_from>>
    /\ UNCHANGED <<indices, batch_size, shuffle, use_iter>>
    /\ UNCHANGED <<vars, cachevars>>

IterNext ==
    \/ Iter
    \/ NextBatch

\* ------------------------------------------------------------ specifications
\* A LargeDict that nothing uses.
Idle == LargeDictInit /\ ~storage_dir /\ in_memory_key_number = 0

Init == LargeDictInit /\ CacheStart /\ IterOff

CacheInit == Idle /\ CacheStart /\ IterOff

IterInit == Idle /\ CacheStart /\ IterStart

Next ==
    \/ \E k \in Keys, v \in Values : SetItem(k, v)
    \/ \E k \in Keys, io_ok \in BOOLEAN : GetItem(k, io_ok)
    \/ \E k \in Keys : DelItem(k)
    \/ \E num \in 0..MaxWatermark : SetInMemoryKeyNumber(num)
    \/ FlushOldItems
    \/ WriteItemBegin
    \/ \E t \in BagToSet(writing), io_ok \in BOOLEAN : WriteItemSave(t, io_ok)
    \/ \E t \in BagToSet(writing) : WriteItemSaved(t)
    \/ \E t \in BagToSet(writing) : WriteItemEnd(t)
    \/ DeleteItem
    \/ FlushAll
    \/ FlushAllReturn
    \/ Release
    \/ ReleaseStopQueues
    \/ ReleaseStop

Spec == Init /\ [][Next]_vars

CacheSpec == CacheInit /\ [][CacheNext]_cachevars

IterSpec == IterInit /\ [][IterNext]_itervars

\* ================================================================ properties
Live == phase # "released"

WriteTasksOf(key) == {t \in BagToSet(writing) : t.key = key}

Drained == write_queue = <<>> /\ writing = EmptyBag

\* C1: a __setitem__(k, v2) that found k PRE_SAVING or SAVING is what every
\* later __getitem__(k) returns, and the blob of k, once k is IN_DISK, holds v2
\* and not the value of the superseded save.
C1_Supersession ==
    \A k \in Keys : (Live /\ superseding[k]) =>
        /\ (ret.key = k /\ ~ret.err) => ret.val = logical[k]
        /\ data_info[k] = IN_DISK => disk[k] = logical[k]

\* C2: between an accepted __delitem__(k) and the next __setitem__(k), no
\* __getitem__(k) returns the value k held before the delete.
C2_GetAfterDelete ==
    \A k \in Keys : (del_val[k] # NoValue /\ ret.key = k) => ret.val # del_val[k]

\* C3: once __delitem__(k) was accepted, no __setitem__(k) followed and the
\* delete task of k has run, k has no table entry, no value in memory and no
\* blob.
C3_DeleteRemoves ==
    \A k \in Keys :
        (Live /\ del_val[k] # NoValue /\ k \notin Range(delete_queue)) =>
            /\ data_info[k] = Absent
            /\ data[k] = NoValue
            /\ disk[k] = NoBlob

\* C4: when flush_all returns, every key that was IN_MEMORY at the call and was
\* not set, got or deleted since is IN_DISK with its blob written, and no write
\* task for it is queued or in flight.
C4_FlushAllBarrier ==
    [][(flush_pc = "polling" /\ flush_pc' = "idle") =>
        \A k \in flush_snap :
            /\ data_info'[k] = IN_DISK
            /\ disk'[k] \in Values
            /\ k \notin Range(write_queue')
            /\ \A t \in BagToSet(writing') : t.key # k]_vars

\* C5: after release of a store that has a storage directory, the directory
\* exists and holds the blob of every key that was set and not deleted.
C5_ShutdownDurable ==
    (phase = "released" /\ storage_dir) =>
        /\ dir_exists
        /\ \A k \in Keys : logical[k] # NoValue => disk[k] = logical[k]

\* C6: a __getitem__(k) that follows __setitem__(k, v) with no sweep in between
\* returns v and performs no storage load, whatever write and delete tasks ran.
C6_GetAfterSet ==
    \A k \in Keys : (unswept[k] /\ ret.key = k) =>
        ret = [key |-> k, val |-> logical[k], loaded |-> FALSE, err |-> FALSE]

\* a get of a freshly set key has returned while storage holds another blob
\* for that key and a write task for the key has been cancelled
C6_Witness ==
    \E k \in Keys :
        /\ unswept[k] /\ ret.key = k /\ ret.val = logical[k]
        /\ storage_dir /\ disk[k] \in Values /\ disk[k] # logical[k]

\* C7: keys() is the set of keys whose latest accepted call is a __setitem__
\* (or that were found on disk and not deleted), and len() is its size.
C7_KeysTrackPresent ==
    Live => /\ keys = {k \in Keys : logical[k] # NoValue}
            /\ len = Cardinality({k \in Keys : logical[k] # NoValue})

\* C8: while k is IN_DISK no write task is in the middle of writing k's blob.
C8_NoPartialBlob ==
    \A k \in Keys : (Live /\ data_info[k] = IN_DISK) =>
        \A t \in WriteTasksOf(k) : t.pc # "saving"

\* C9: after a sweep outside flush-all mode, with the write queue drained and
\* no foreground call since the sweep, at most in_memory_key_number keys are
\* IN_MEMORY.
C9_Watermark ==
    (swept /\ Drained) => Cardinality(in_memory_keys) <= in_memory_key_number

\* more keys were set than the watermark, the sweep ran, the queue drained and
\* the excess key is on disk
C9_Witness ==
    /\ swept /\ Drained
    /\ Cardinality(in_memory_keys) = in_memory_key_number
    /\ \E k \in Keys : data_info[k] = IN_DISK /\ logical[k] # NoValue
                         /\ disk[k] = logical[k] /\ del_val[k] = NoValue
    /\ Cardinality({k \in Keys : logical[k] # NoValue}) > in_memory_key_number

\* C10 as stated: a key with a value in memory is IN_MEMORY, PRE_SAVING, SAVING
\* or LOADING.
C10_ValueStates_Original ==
    \A k \in Keys : data[k] # NoValue =>
        data_info[k] \in {IN_MEMORY, PRE_SAVING, SAVING, LOADING}

\* C10 amended: a key with a value in memory is IN_MEMORY, PRE_SAVING, SAVING,
\* LOADING or PRE_DELETE, never IN_DISK or PRE_LOAD (and never without a table
\* entry).
C10_ValueStates ==
    \A k \in Keys : data[k] # NoValue =>
        data_info[k] \in {IN_MEMORY, PRE_SAVING, SAVING, LOADING, PRE_DELETE}

\* a deleted key still holds its value while its delete task is queued, and
\* another key has been through a save and dropped its value
C10_Witness ==
    /\ \E k \in Keys : data[k] # NoValue /\ data_info[k] = PRE_DELETE
    /\ \E k \in Keys : data[k] = NoValue /\ data_info[k] = IN_DISK
                         /\ logical[k] # NoValue /\ nops > 1

Last(s) == s[Len(s)]

Count(s, key) == Cardinality({i \in 1..Len(s) : s[i] = key})

\* C11: a key that has a table entry and no value in memory is IN_DISK,
\* PRE_LOAD or PRE_DELETE, also after a storage load or save has failed.
C11_NoValueStates ==
    \A k \in Keys : (Live /\ known(k) /\ data[k] = NoValue) =>
        data_info[k] \in {IN_DISK, PRE_LOAD, PRE_DELETE}

\* C12: every key in time_to_key is IN_MEMORY.
C12_SequenceInMemory ==
    \A i \in 1..Len(time_to_key) : data_info[time_to_key[i]] = IN_MEMORY

\* C13: time_to_key contains no key more than once.
C13_NoDuplicates ==
    \A i, j \in 1..Len(time_to_key) : i # j => time_to_key[i] # time_to_key[j]

\* a get has moved a key that was already in the sequence, behind another key,
\* to the most-recent end
C13_Witness ==
    /\ Len(time_to_key) >= 2
    /\ ret.key = Last(time_to_key) /\ ~ret.loaded /\ ~ret.err
    /\ nops >= 3

\* The storage I/O of the last __getitem__ ran inside the lock section of
\* __load_item: read_item, and torch.load in it, is called within the
\* "with self.lock" block.
io_under_lock == ret.loaded

\* C14: no storage I/O is performed while the table lock is held.
C14_NoIOUnderLock == ~io_under_lock

\* C15: no sweep enqueues a task onto a queue that release has stopped.
C15_NoLateEnqueue == ~late_add

\* C16: __setitem__(k, v) leaves k IN_MEMORY with value v, exactly once and at
\* the most-recent end of time_to_key, and enqueues no task.
C16_SetItem ==
    [][\A k \in Keys, v \in Values : SetItem(k, v) =>
        /\ data_info'[k] = IN_MEMORY
        /\ data'[k] = v
        /\ Last(time_to_key') = k
        /\ Count(time_to_key', k) = 1
        /\ write_queue' = write_queue
        /\ delete_queue' = delete_queue]_vars

\* a set has overwritten a key whose save was in flight (prior state SAVING)
\* with another value
C16_Witness ==
    \E k \in Keys :
        /\ superseding[k] /\ unswept[k] /\ ret = NoRet
        /\ data_info[k] = IN_MEMORY /\ data[k] = logical[k]
        /\ Last(time_to_key) = k
        /\ \E t \in WriteTasksOf(k) : t.value # data[k]

\* C17: __delitem__(k) is accepted for every key that has a table entry,
\* whatever its state, and a rejected call changes nothing.
C17_DeleteAccepted ==
    [][\A k \in Keys : DelItem(k) =>
        IF known(k)
        THEN data_info'[k] = PRE_DELETE /\ Count(delete_queue', k) = Count(delete_queue, k) + 1
        ELSE UNCHANGED <<data_info, data, time_to_key, write_queue, delete_queue>>]_vars

\* C18: after two __delitem__(k) calls and both delete tasks, k has no table
\* entry, no value in memory and no blob.
C18_DoubleDelete ==
    \A k \in Keys :
        (Live /\ ndel[k] = 2 /\ k \notin Range(delete_queue)) =>
            /\ data_info[k] = Absent
            /\ data[k] = NoValue
            /\ disk[k] = NoBlob

\* C19: __getitem__(k) on a key without a table entry raises KeyError and
\* leaves table, values, recency sequence, queues and blobs unchanged.
C19_GetAbsent ==
    [][\A k \in Keys, io_ok \in BOOLEAN : (data_info[k] = Absent /\ GetItem(k, io_ok)) =>
        /\ ret' = [key |-> k, val |-> NoValue, loaded |-> FALSE, err |-> TRUE]
        /\ UNCHANGED <<data_info, data, time_to_key, write_queue, delete_queue,
                       disk>>]_vars

\* a get has failed on a key that was set, deleted and removed by its delete
\* task
C19_Witness ==
    /\ ret.key \in Keys /\ ret.err /\ ~ret.loaded
    /\ data_info[ret.key] = Absent
    /\ del_val[ret.key] # NoValue

\* C20: __getitem__(k) on an IN_DISK key, the load not failing on I/O, returns
\* the value k held when it went to disk and leaves k IN_MEMORY with that value at
\* the most-recent end of time_to_key.
C20_RoundTrip ==
    [][\A k \in Keys : (data_info[k] = IN_DISK /\ GetItem(k, TRUE)) =>
        /\ ret' = [key |-> k, val |-> evicted[k], loaded |-> TRUE, err |-> FALSE]
        /\ data_info'[k] = IN_MEMORY
        /\ data'[k] = evicted[k]
        /\ Last(time_to_key') = k]_vars

\* What C21 says of one sweep: the excess over the watermark is taken from the
\* oldest end in order, marked PRE_SAVING and queued in that order, and the
\* other keys keep their state and position.
EvictsOldest ==
    LET n == Len(time_to_key)
        w == in_memory_key_number
        selected == SubSeq(time_to_key, 1, n - w)
    IN  /\ time_to_key' = SubSeq(time_to_key, n - w + 1, n)
        /\ write_queue' = write_queue \o selected
        /\ \A k \in Keys : data_info'[k] =
               IF k \in Range(selected) THEN PRE_SAVING ELSE data_info[k]

\* C21 as stated: every sweep that finds more keys than the watermark selects
\* exactly the excess, oldest first.
C21_OldestFirst_Original ==
    [][(FlushOldItems /\ Len(time_to_key) > in_memory_key_number) =>
        EvictsOldest]_vars

\* C21 amended: a sweep outside flush-all mode, on a store whose queues have
\* not been stopped, that finds more keys than the watermark selects exactly the
\* excess, oldest first, marks each PRE_SAVING and queues one write task per key
\* in that order; the most recent keys keep their state and order.
C21_OldestFirst ==
    [][(FlushOldItems /\ Len(time_to_key) > in_memory_key_number
            /\ ~flush_all_once /\ ~QueuesStopped) =>
        EvictsOldest]_vars

\* a sweep has queued the oldest key and left the most recent one in place
C21_Witness ==
    /\ swept /\ in_memory_key_number >= 1
    /\ Len(time_to_key) = in_memory_key_number
    /\ write_queue # <<>>
    /\ data_info[Head(write_queue)] = PRE_SAVING
    /\ data_info[Last(time_to_key)] = IN_MEMORY
    /\ Head(write_queue) \notin Range(time_to_key)

\* The state of the example of spec section 6, for any watermark w >= 1: w + 1
\* foreground calls were made, the sweep ran, the write queue drained, and k is
\* the one key on disk while w keys are IN_MEMORY.  The blob of k is none that
\* construction can have found, so a write task wrote it.
Scenario(k) ==
    /\ Running /\ storage_dir /\ swept /\ Drained /\ delete_queue = <<>>
    /\ in_memory_key_number >= 1
    /\ nops = in_memory_key_number + 1
    /\ data_info[k] = IN_DISK /\ logical[k] # NoValue
    /\ \A b \in InitBlobs : disk[k] # b[k]
    /\ Cardinality(in_memory_keys) = in_memory_key_number
    /\ \A j \in in_memory_keys : logical[j] # NoValue

C23_SaveFailure ==
    [][\A t \in BagToSet(writing), io_ok \in BOOLEAN :
        (/\ WriteItemSave(t, io_ok)
         /\ ~(storage_dir /\ io_ok)
         /\ data_info[t.key] = SAVING
         /\ WriteTasksOf(t.key) = {t} /\ CopiesIn(t, writing) = 1) =>
            /\ data_info'[t.key] = IN_MEMORY
            /\ data'[t.key] = t.value
            /\ t.key \in Range(time_to_key')]_vars

\* C24: flush_old_items never raises.
C24_SweepNeverRaises == [][FlushOldItems => ~sweep_raises]_vars

\* C26: a write task that finds its key absent or not PRE_SAVING at its start
\* saves nothing and changes nothing; one that finds its key present and not
\* SAVING after its save changes neither the key's state, nor its value in
\* memory, nor time_to_key.
C26_StaleWriteNoOp ==
    [][/\ (WriteItemBegin /\ data_info[next_task(write_queue)] # PRE_SAVING) =>
            UNCHANGED <<data_info, data, time_to_key, disk, writing, delete_queue>>
       /\ \A t \in BagToSet(writing) :
            (WriteItemEnd(t) /\ data_info[t.key] \notin {Absent, SAVING}) =>
                UNCHANGED <<data_info, data, time_to_key>>]_vars

\* a write task whose key was set again during the save has written its blob
\* and ended: the key is IN_MEMORY with the newer value
C26_Witness ==
    \E k \in Keys :
        /\ superseding[k] /\ data_info[k] = IN_MEMORY /\ data[k] = logical[k]
        /\ disk[k] \in Values /\ disk[k] # data[k]
        /\ WriteTasksOf(k) = {} /\ k \notin Range(write_queue)
        /\ evicted[k] = NoValue

\* C27: a delete task that finds its key not PRE_DELETE, or without a table
\* entry, leaves table, values, time_to_key and blobs unchanged.
C27_StaleDeleteNoOp ==
    [][/\ (DeleteItem /\ data_info[next_task(delete_queue)] # PRE_DELETE) =>
            UNCHANGED <<data_info, data, time_to_key, disk, write_queue, writing>>
       \* no __delitem__ was accepted since the latest __setitem__ of the key
       /\ (DeleteItem /\ ndel[next_task(delete_queue)] = 0) =>
            UNCHANGED <<data_info, data, time_to_key, disk, write_queue, writing>>]_vars

\* the delete task of a key that was set again after its __delitem__ has run:
\* the key is IN_MEMORY with the value of the set
C27_Witness ==
    /\ "delete_cancelled" \in seen
    /\ delete_queue = <<>>
    /\ \E k \in Keys :
        /\ data_info[k] = IN_MEMORY /\ unswept[k] /\ ndel[k] = 0
        /\ data[k] = logical[k] /\ Last(time_to_key) = k
        /\ nops = 3

\* C28: before release, a key that has no table entry and no write task
\* between its save and its final re-check has no blob.
C28_NoOrphanBlob ==
    \A k \in Keys :
        (/\ Live /\ data_info[k] = Absent
         /\ \A t \in WriteTasksOf(k) : t.pc \notin {"saving", "check"}) =>
            disk[k] = NoBlob

\* C29: a __getitem__(k) on a key without a value in memory whose load fails
\* raises, and k keeps its table entry and its blob and has no value in memory;
\* a later __getitem__(k) whose load does not fail returns the value of the
\* blob and leaves k IN_MEMORY with it.
C29_LoadFailure ==
    [][\A k \in Keys :
        /\ (known(k) /\ data[k] = NoValue /\ disk[k] \in Values
                /\ GetItem(k, FALSE)) =>
            /\ ret'.key = k /\ ret'.err
            /\ known(k)' /\ data'[k] = NoValue /\ disk' = disk
        /\ (data_info[k] = LOADING /\ data[k] = NoValue /\ disk[k] \in Values
                /\ GetItem(k, TRUE)) =>
            /\ ret' = [key |-> k, val |-> disk[k], loaded |-> TRUE, err |-> FALSE]
            /\ data_info'[k] = IN_MEMORY /\ data'[k] = disk[k]]_vars

\* a get has loaded a key that an earlier failed load had left LOADING
C29_Witness ==
    /\ "load_retried" \in seen
    /\ ret.key \in Keys /\ ret.loaded /\ ~ret.err
    /\ data_info[ret.key] = IN_MEMORY
    /\ data[ret.key] = disk[ret.key] /\ ret.val = disk[ret.key]

\* The keys of s other than key, in order.
Others(s, key) == SelectSeq(s, LAMBDA x : x # key)

\* C30: __getitem__(k) on an IN_MEMORY key returns its value without a load,
\* moves k to the most-recent end of time_to_key and keeps the order of the
\* other keys.
C30_GetMovesToEnd ==
    [][\A k \in Keys, io_ok \in BOOLEAN :
        (data_info[k] = IN_MEMORY /\ GetItem(k, io_ok)) =>
            /\ Count(time_to_key', k) = 1
            /\ Last(time_to_key') = k
            /\ Others(time_to_key', k) = Others(time_to_key, k)
            /\ ret' = [key |-> k, val |-> data[k], loaded |-> FALSE, err |-> FALSE]]_vars

\* a get has moved the older of two keys set since the last sweep behind the
\* newer one
C30_Witness ==
    /\ ret.key \in Keys /\ ~ret.loaded /\ ~ret.err
    /\ Len(time_to_key) >= 2 /\ Last(time_to_key) = ret.key
    /\ \A i \in 1..Len(time_to_key) : unswept[time_to_key[i]]
    /\ nops = 3

\* The scheduling of the code: the sweep thread runs every 0.05 s, flush_all
\* polls every second, and the workers of the queues run whenever a task is
\* there.
Fairness ==
    /\ WF_vars(FlushOldItems)
    /\ WF_vars(FlushAllReturn)
    /\ WF_vars(WriteItemBegin)
    /\ WF_vars(\E t \in BagToSet(writing), io_ok \in BOOLEAN : WriteItemSave(t, io_ok))
    /\ WF_vars(\E t \in BagToSet(writing) : WriteItemSaved(t))
    /\ WF_vars(\E t \in BagToSet(writing) : WriteItemEnd(t))
    /\ WF_vars(DeleteItem)

FairSpec == Spec /\ Fairness

\* C31: with the sweep running and finitely many foreground calls, every call
\* of flush_all returns.
C31_FlushAllReturns == (flush_pc = "polling") ~> (flush_pc = "idle")

\* C32: a sweep that finds time_to_key non-empty, not longer than the watermark,
\* and flush-all mode off changes no state, no value and no order and queues
\* nothing, so a second sweep finds what the first one found.
C32_SweepNoOp ==
    [][(/\ FlushOldItems
        /\ time_to_key # <<>>
        /\ Len(time_to_key) <= in_memory_key_number
        /\ ~flush_all_once) =>
            UNCHANGED <<data_info, data, time_to_key, write_queue, delete_queue,
                        writing, disk, flush_all_once, in_memory_key_number>>]_vars

\* a sweep has run over a store whose keys are within the watermark and has
\* left every key IN_MEMORY and the queue empty
C32_Witness ==
    /\ swept /\ Drained /\ time_to_key # <<>>
    /\ Len(time_to_key) <= in_memory_key_number
    /\ \A k \in Keys : data_info[k] \in {Absent, IN_MEMORY}
    /\ \A k \in Keys : evicted[k] = NoValue /\ pending_at_get[k] = 0
    /\ seen = {} /\ ~flush_all_once

\* C33: __getitem__(k) on a key that is PRE_SAVING or SAVING with its value in
\* memory returns the value without a load, sets k IN_MEMORY and puts it at the
\* most-recent end; a write task that was in flight at that call then ends
\* without dropping the value or marking k IN_DISK.
C33_GetDuringSave ==
    [][/\ \A k \in Keys, io_ok \in BOOLEAN :
            (/\ data[k] # NoValue
             /\ data_info[k] \in {PRE_SAVING, SAVING}
             /\ GetItem(k, io_ok)) =>
                /\ ret' = [key |-> k, val |-> data[k], loaded |-> FALSE, err |-> FALSE]
                /\ data_info'[k] = IN_MEMORY
                /\ data'[k] = data[k]
                /\ Count(time_to_key', k) = 1
                /\ Last(time_to_key') = k
       /\ \A t \in BagToSet(writing) :
            (WriteItemEnd(t) /\ pending_at_get[t.key] > 0) =>
                /\ data_info'[t.key] # IN_DISK
                /\ data'[t.key] = data[t.key]]_vars

\* C34: before release, every key with a value in memory has a table entry,
\* every IN_MEMORY key has a value in memory and is in time_to_key, every key
\* in time_to_key has a value in memory, and no IN_DISK key has one.
C34_Consistent ==
    Live =>
        \A k \in Keys :
            /\ data[k] # NoValue => known(k)
            /\ data_info[k] = IN_MEMORY =>
                    (data[k] # NoValue /\ k \in Range(time_to_key))
            /\ k \in Range(time_to_key) => data[k] # NoValue
            /\ data_info[k] = IN_DISK => data[k] = NoValue

\* a write task has put one key on disk and dropped its value and its
\* position in time_to_key, while another key is IN_MEMORY in time_to_key
C34_Witness ==
    /\ Live
    /\ \E k \in Keys : data_info[k] = IN_DISK /\ evicted[k] # NoValue
                         /\ k \notin Range(time_to_key) /\ logical[k] = evicted[k]
                         /\ \A b \in InitBlobs : disk[k] # b[k]
    /\ \E k \in Keys : data_info[k] = IN_MEMORY /\ k \in Range(time_to_key)
                         /\ data[k] = logical[k]

\* C35: before release, every IN_DISK key has a blob in the storage directory.
C35_DiskKeysHaveBlob ==
    \A k \in Keys : (Live /\ data_info[k] = IN_DISK) => disk[k] # NoBlob

\* a key is IN_DISK with the blob that its write task wrote, after the delete
\* task of another key has run
C35_Witness ==
    /\ Live /\ delete_queue = <<>>
    /\ \E k \in Keys :
        /\ data_info[k] = IN_DISK /\ disk[k] = evicted[k]
        /\ \A b \in InitBlobs : disk[k] # b[k]
        /\ data[k] = NoValue /\ WriteTasksOf(k) = {}
    /\ \E j \in Keys : data_info[j] = Absent /\ del_val[j] # NoValue

\* C36: the sweep that empties time_to_key in flush-all mode clears
\* flush_all_once, and so, when no flush_all is waiting, a sweep leaves the keys
\* alone unless time_to_key is longer than the watermark.
C36_FlushAllOneShot ==
    [][/\ (FlushOldItems /\ flush_all_once /\ time_to_key # <<>>
                /\ time_to_key' = <<>>) => ~flush_all_once'
       /\ (/\ FlushOldItems
           /\ Running /\ flush_pc = "idle"
           /\ Len(time_to_key) <= in_memory_key_number) =>
                UNCHANGED <<data_info, time_to_key, write_queue>>]_vars

\* ------------------------------------------------------------------- C37
\* C37: the file cache computes a value at most once per cache file, and no
\* call of get_labels or of __get_label_indices ends with an exception.
C37_CacheOnce ==
    /\ \A f \in CacheFiles : computed[f] <= 1
    /\ \A c \in Callers : cpc[c] # "raised"

\* ------------------------------------------------------------------- C38
same_indices(p, q) ==
    /\ Len(p) = Len(q)
    /\ \A x \in 0..(MaxLen - 1) : Count(p, x) = Count(q, x)

\* A pass that returned every index once, in dataset order without shuffle.
complete_pass(p) == same_indices(p, indices) /\ (~shuffle => p = indices)

\* The pass that a StopIteration ends was complete, if it began at one of from.
pass_post(from) == pass_from \in from => complete_pass(emitted)

\* What the __next__ that raises StopIteration leaves: a full new pass.
stop_post == same_indices(tmp_indices, indices) /\ emitted = <<>>

\* What a __next__ that returns a batch leaves.
batch_post ==
    /\ out.batch # <<>>
    /\ Len(out.batch) = batch_size \/ tmp_indices = <<>>
    /\ Len(out.batch) <= batch_size

\* C38 as stated: the __next__ calls between two StopIteration signals return
\* every index exactly once, in batches of batch_size but for the last, in
\* dataset order without shuffle, and StopIteration leaves a full new pass,
\* whatever else was called between the two signals.
C38_EveryPass ==
    [][NextBatch => IF out'.stop THEN pass_post({"stop", "restarted"}) /\ stop_post'
                                 ELSE batch_post']_itervars

\* C38 amended: the same for the __next__ calls between two StopIteration
\* signals with no __iter__ after the first batch of the pass, and for those
\* between __iter__ on a new iterator and the first StopIteration.
C38_UninterruptedPass ==
    [][NextBatch => IF out'.stop THEN pass_post({"stop", "iter"}) /\ stop_post'
                                 ELSE batch_post']_itervars

\* A pass between two StopIteration signals over three indices in batches of
\* two, without shuffle, has just ended.
C38_Witness ==
    /\ out.stop
    /\ last_from = "stop"
    /\ Len(indices) = 3
    /\ batch_size = 2
    /\ ~shuffle

====
